---------------------------- MODULE Spec2Model ----------------------------
(***************************************************************************)
(* Model of src/main.go: the metadata fetch with its cache                 *)
(* (fetchVideoMetaData, called by the /submit handler), the normalisation  *)
(* of the extraction tool's format list, the format-id check and the       *)
(* /download handler that pipes the tool's standard output into the HTTP   *)
(* response.                                                               *)
(*                                                                         *)
(* Strings that the code inspects character by character (URLs, format     *)
(* ids) are sequences: URLs of one-character strings, format ids of byte   *)
(* values.  The cache store (Redis) and the extraction tool (yt-dlp) are   *)
(* external: every outcome they can produce is a nondeterministic choice.  *)
(***************************************************************************)
EXTENDS Integers, Sequences, FiniteSets, TLC

VARIABLES
    \* ---- metadata fetch (fetchVideoMetaData, /submit) ----
    cache,      \* the store: key -> [data, ttl], for the keys it holds
    pc,         \* per call: position in /submit + fetchVideoMetaData
    caller,     \* per call: "submit" (the HTTP handler) or "direct"
    url,        \* per call: the videoURL argument
    got,        \* per call: what the cache get returned
    out,        \* per call: what the tool invocation returned
    val,        \* per call: videoResp built by a fresh fetch
    ret,        \* per call: the (value, error) pair returned
    resp,       \* per call: what the /submit handler answered
    gets,       \* per call: number of cache gets issued
    toolRuns,   \* per call: number of tool invocations
    setLog,     \* per call: the cache sets issued, in order
    lastSet,    \* per key: the last set the store applied, and its age
    \* ---- format-list normalisation (pure) ----
    nPc, rawList, medias,
    \* ---- /download handler ----
    dPc, dURL, dFormat, dFormatOK, dStatus, dBody, dToolRuns, dToolOut, dPipe, dExit

fvars == <<cache, pc, caller, url, got, out, val, ret, resp, gets, toolRuns,
           setLog, lastSet>>
nvars == <<nPc, rawList, medias>>
dvars == <<dPc, dURL, dFormat, dFormatOK, dStatus, dBody, dToolRuns, dToolOut,
           dPipe, dExit>>
vars  == <<fvars, nvars, dvars>>

-----------------------------------------------------------------------------
(* Bounds *)

NCalls     == 2     \* concurrent fetchVideoMetaData calls
MaxFormats == 2     \* length of a raw format list given to the normaliser
MaxIdLen   == 2     \* length of a format id sent to /download
MaxChunks  == 3     \* chunks the tool writes to its standard output

(* 5*time.Minute, counted in minutes *)
TTL == 5

Nil == "nil"

(* A Go pointer, and an optional value of the store: <<>> or <<v>> *)
NilPtr == <<>>
Ptr(v) == <<v>>
Miss   == <<>>

Calls == 1..NCalls

-----------------------------------------------------------------------------
(* url.ParseRequestURI, as far as the URLs below exercise it: the scheme   *)
(* scan, the opaque and "invalid URI for request" cases, and the           *)
(* authority split.  Query, userinfo and port play no part in them.        *)

Letters == {"h", "e", "m", "n", "o", "w", "x", "v"}
SchemePunct == {"+", "-", ".", "0"}

HasPrefix(s, p) ==
    /\ Len(s) >= Len(p)
    /\ SubSeq(s, 1, Len(p)) = p

Drop(s, n) == SubSeq(s, n + 1, Len(s))

RECURSIVE getScheme(_, _)
getScheme(s, i) ==
    IF i > Len(s) THEN [scheme |-> <<>>, rest |-> s, err |-> Nil]
    ELSE IF s[i] \in Letters THEN getScheme(s, i + 1)
    ELSE IF s[i] \in SchemePunct THEN
        IF i = 1 THEN [scheme |-> <<>>, rest |-> s, err |-> Nil]
        ELSE getScheme(s, i + 1)
    ELSE IF s[i] = ":" THEN
        IF i = 1 THEN [scheme |-> <<>>, rest |-> <<>>, err |-> "missing protocol scheme"]
        ELSE [scheme |-> SubSeq(s, 1, i - 1), rest |-> Drop(s, i), err |-> Nil]
    ELSE [scheme |-> <<>>, rest |-> s, err |-> Nil]

RECURSIVE IndexOf(_, _, _)
IndexOf(s, c, i) ==
    IF i > Len(s) THEN 0
    ELSE IF s[i] = c THEN i
    ELSE IndexOf(s, c, i + 1)

ParseRequestURI(rawURL) ==
    IF rawURL = <<>> THEN [err |-> "empty url", Scheme |-> <<>>, Host |-> <<>>]
    ELSE
      LET g == getScheme(rawURL, 1) IN
      IF g.err # Nil THEN [err |-> g.err, Scheme |-> <<>>, Host |-> <<>>]
      ELSE IF ~HasPrefix(g.rest, <<"/">>) THEN
          IF g.scheme # <<>>
          THEN [err |-> Nil, Scheme |-> g.scheme, Host |-> <<>>]
          ELSE [err |-> "invalid URI for request", Scheme |-> <<>>, Host |-> <<>>]
      ELSE IF g.scheme # <<>> /\ HasPrefix(g.rest, <<"/", "/">>) THEN
          LET auth == Drop(g.rest, 2)
              i    == IndexOf(auth, "/", 1)
          IN [err |-> Nil, Scheme |-> g.scheme,
              Host |-> IF i = 0 THEN auth ELSE SubSeq(auth, 1, i - 1)]
      ELSE [err |-> Nil, Scheme |-> g.scheme, Host |-> <<>>]

(* "h://e/w" *)
ValidURL == <<"h", ":", "/", "/", "e", "/", "w">>

(* The arguments of a call: "h://e/w", "/w", "no", "m:x", "h:///w", "",    *)
(* ":/w", "//e/w"                                                          *)
URLs == {
    ValidURL,
    <<"/", "w">>,
    <<"n", "o">>,
    <<"m", ":", "x">>,
    <<"h", ":", "/", "/", "/", "w">>,
    <<>>,
    <<":", "/", "w">>,
    <<"/", "/", "e", "/", "w">> }

(* The videoURL form values sent to /submit *)
SubmitURLs == { ValidURL, <<>>, <<"/", "w">> }

(* utils.ValidateURL is outside src/; the /submit handler is modelled with *)
(* a validator that lets through absolute URLs with a host only.           *)
ValidateURL(u) ==
    LET p == ParseRequestURI(u) IN
    p.err = Nil /\ p.Scheme # <<>> /\ p.Host # <<>>

cacheKey(videoURL) == <<"video_meta:">> \o videoURL


-----------------------------------------------------------------------------
(* The extraction tool's JSON document (YTDLPOutput) and its format        *)
(* entries; fps and filesize are decoded and never read.                   *)

RawFormat(id, label, v, a) ==
    [format_id |-> id, ext |-> "mp4", format |-> label, width |-> 640,
     height |-> 360, acodec |-> a, vcodec |-> v]

YTDLPDoc(id, formats) ==
    [id |-> id, title |-> "Demo", uploader |-> "Me", thumbnail |-> "http://x/img.jpg",
     webpage_url |-> "https://example.com/watch?v=abc", formats |-> formats]

(* The documents the tool answers with: one with a kept and a dropped      *)
(* entry, one whose only entry is dropped, and one with two kept entries.  *)
ToolDocs == {
    YTDLPDoc("abc", << RawFormat("18", "360p", "h264", "aac"),
                       RawFormat("", "bad", "", "") >>),
    YTDLPDoc("abd", << RawFormat("22", "storyboard", "none", "none") >>),
    YTDLPDoc("abe", << RawFormat("140", "audio only", "none", "aac"),
                       RawFormat("18", "360p", "h264", "aac") >>) }

(* Bytes: what a process wrote or the store holds *)
Empty   == [kind |-> "empty", doc |-> <<>>]
Garbage == [kind |-> "garbage", doc |-> <<>>]
JSON(d) == [kind |-> "json", doc |-> <<d>>]

(* The decoding of output into ytdlpData: the document's members by their *)
(* json tags                                                               *)
UnmarshalYTDLPOutput(data) ==
    IF data.kind = "json" THEN
        LET d == data.doc[1] IN
        [err |-> Nil,
         v |-> << [ID |-> d.id, Title |-> d.title, Uploader |-> d.uploader,
                   Thumbnail |-> d.thumbnail, WebpageURL |-> d.webpage_url,
                   Formats |-> [i \in 1..Len(d.formats) |->
                       [FormatID |-> d.formats[i].format_id, Ext |-> d.formats[i].ext,
                        Format |-> d.formats[i].format, Width |-> d.formats[i].width,
                        Height |-> d.formats[i].height, Acodec |-> d.formats[i].acodec,
                        Vcodec |-> d.formats[i].vcodec]]] >>]
    ELSE IF data.kind = "empty" THEN [err |-> "unexpected end of JSON input", v |-> <<>>]
    ELSE [err |-> "invalid character", v |-> <<>>]

(* The encoding of videoResp: an object keyed by the json tags *)
Marshal(v) ==
    JSON([url |-> v.URL, source |-> v.Source, id |-> v.ID, author |-> v.Author,
          title |-> v.Title, thumbnail |-> v.Thumbnail,
          medias |-> [i \in 1..Len(v.Medias) |->
              [format_id |-> v.Medias[i].FormatID, quality |-> v.Medias[i].Quality,
               width |-> v.Medias[i].Width, height |-> v.Medias[i].Height,
               ext |-> v.Medias[i].Ext]],
          error |-> v.Error])

(* The decoding of cacheData into a VideoResponse *)
UnmarshalVideoResponse(data) ==
    IF data.kind = "json" THEN
        LET d == data.doc[1] IN
        [err |-> Nil,
         v |-> << [URL |-> d.url, Source |-> d.source, ID |-> d.id, Author |-> d.author,
                   Title |-> d.title, Thumbnail |-> d.thumbnail,
                   Medias |-> [i \in 1..Len(d.medias) |->
                       [FormatID |-> d.medias[i].format_id, Quality |-> d.medias[i].quality,
                        Width |-> d.medias[i].width, Height |-> d.medias[i].height,
                        Ext |-> d.medias[i].ext]],
                   Error |-> d.error] >>]
    ELSE IF data.kind = "empty" THEN [err |-> "unexpected end of JSON input", v |-> <<>>]
    ELSE [err |-> "invalid character", v |-> <<>>]

(* One element appended to videoResp.Medias *)
Media(f) ==
    [FormatID |-> f.FormatID, Quality |-> f.Format, Width |-> f.Width,
     Height |-> f.Height, Ext |-> f.Ext]

(* `for _, f := range ytdlpData.Formats` with its two `continue`s:         *)
(* a || in place of && drops every entry that lacks either codec           *)
RECURSIVE NormalizeFormats_EitherNone(_)
NormalizeFormats_EitherNone(formats) ==
    IF formats = <<>> THEN <<>>
    ELSE LET f == Head(formats) IN
         IF f.FormatID = "" THEN NormalizeFormats_EitherNone(Tail(formats))
         ELSE IF f.Vcodec = "none" \/ f.Acodec = "none"
              THEN NormalizeFormats_EitherNone(Tail(formats))
         ELSE <<Media(f)>> \o NormalizeFormats_EitherNone(Tail(formats))

RECURSIVE NormalizeFormats(_)
NormalizeFormats(formats) ==
    IF formats = <<>> THEN <<>>
    ELSE LET f == Head(formats) IN
         IF f.FormatID = "" THEN NormalizeFormats(Tail(formats))
         ELSE IF f.Vcodec = "none" /\ f.Acodec = "none"
              THEN NormalizeFormats(Tail(formats))
         ELSE <<Media(f)>> \o NormalizeFormats(Tail(formats))

(* videoResp as built from ytdlpData *)
Normalize(d) ==
    [URL |-> d.WebpageURL, Source |-> "", ID |-> d.ID, Author |-> d.Uploader,
     Title |-> d.Title, Thumbnail |-> d.Thumbnail,
     Medias |-> NormalizeFormats(d.Formats), Error |-> FALSE]

(* What cmd.Output() can hand back: the process did not start, it exited   *)
(* non-zero, or it exited 0 with some standard output.                     *)
ToolOutcomes ==
    { [err |-> "exec: not started", stdout |-> Empty],
      [err |-> "exit status 1", stdout |-> Empty],
      [err |-> Nil, stdout |-> Empty],
      [err |-> Nil, stdout |-> Garbage] }
    \cup { [err |-> Nil, stdout |-> JSON(d)] : d \in ToolDocs }

-----------------------------------------------------------------------------
(* The store: the keys it holds, each with its bytes and the minutes it    *)
(* has left                                                                *)

Entry(data, ttl) == << [data |-> data, ttl |-> ttl] >>

Lookup(c, key) == IF key \in DOMAIN c THEN << c[key] >> ELSE Miss

(* SET that keeps an existing entry (SETNX) *)
Set_IfAbsent(c, key, data, ttl) ==
    IF key \in DOMAIN c THEN c
    ELSE [k \in DOMAIN c \cup {key} |->
             IF k = key THEN [data |-> data, ttl |-> ttl] ELSE c[k]]

(* rdb.Set(ctx, key, data, ttl) when the store applies it *)
Set(c, key, data, ttl) ==
    [k \in DOMAIN c \cup {key} |->
        IF k = key THEN [data |-> data, ttl |-> ttl] ELSE c[k]]

(* What rdb.Get(ctx, key).Result() can hand back *)
GetResults(c, key) ==
    { [err |-> "connection refused", data |-> Empty] }
    \cup (IF Lookup(c, key) = Miss THEN { [err |-> "redis: nil", data |-> Empty] }
          ELSE { [err |-> Nil, data |-> c[key].data] })

(* A minute passes: every entry ages, and one whose time is up is gone *)
Expire(c) ==
    [k \in { x \in DOMAIN c : c[x].ttl > 1 } |-> [c[k] EXCEPT !.ttl = @ - 1]]

NoSet == <<>>

(* The age, up to TTL, of the last set applied to each key *)
Age(l) ==
    [k \in DOMAIN l |-> [l[k] EXCEPT !.age = IF @ < TTL THEN @ + 1 ELSE @]]

ValidKey == cacheKey(ValidURL)

(* What the store holds under the key when the server starts: nothing, or *)
(* bytes that are no JSON, with some of their time left.  Every entry that *)
(* deserializes is one a fetch has stored.                                 *)
InitialEntries == { Miss } \cup { Entry(Garbage, t) : t \in 1..TTL }

NoOutcome == [err |-> Nil, stdout |-> Empty]
NoGet     == [err |-> Nil, data |-> Empty]
NoRet     == [val |-> NilPtr, err |-> Nil]

FetchInit ==
    /\ cache \in { [k \in { x \in {ValidKey} : e # Miss } |-> e[1]] : e \in InitialEntries }
    /\ pc = [p \in Calls |-> "idle"]
    /\ caller = [p \in Calls |-> "none"]
    /\ url = [p \in Calls |-> <<>>]
    /\ got = [p \in Calls |-> NoGet]
    /\ out = [p \in Calls |-> NoOutcome]
    /\ val = [p \in Calls |-> NilPtr]
    /\ ret = [p \in Calls |-> NoRet]
    /\ resp = [p \in Calls |-> "none"]
    /\ gets = [p \in Calls |-> 0]
    /\ toolRuns = [p \in Calls |-> 0]
    /\ setLog = [p \in Calls |-> <<>>]
    /\ lastSet = NoSet

(* What the /submit handler does with the result of fetchVideoMetaData:    *)
(* the 500 answer, or the page, which reads videoData.Title and            *)
(* videoData.Medias[0]                                                     *)
SubmitResponse(videoData, err) ==
    IF err # Nil THEN "500 Error fetching video meta data"
    ELSE IF videoData = NilPtr THEN "panic: nil pointer dereference"
    ELSE IF Len(videoData[1].Medias) = 0 THEN "panic: index out of range"
    ELSE "200"

(* A return of fetchVideoMetaData, and what its caller does next *)
Return(p, who, v, e) ==
    /\ ret' = [ret EXCEPT ![p] = [val |-> v, err |-> e]]
    /\ IF who = "submit"
       THEN /\ resp' = [resp EXCEPT ![p] = SubmitResponse(v, e)]
            /\ pc' = [pc EXCEPT ![p] = "responded"]
       ELSE /\ pc' = [pc EXCEPT ![p] = "returned"]
            /\ UNCHANGED resp

(* fetchVideoMetaData up to its first return: the URL check.  The error    *)
(* returned is the parser's, which is nil when the URL parsed.             *)
Enter(p, u, who) ==
    LET parsedURL == ParseRequestURI(u) IN
    /\ url' = [url EXCEPT ![p] = u]
    /\ caller' = [caller EXCEPT ![p] = who]
    /\ IF parsedURL.err # Nil \/ parsedURL.Scheme = <<>> \/ parsedURL.Host = <<>>
       THEN Return(p, who, NilPtr, parsedURL.err)
       ELSE /\ pc' = [pc EXCEPT ![p] = "get"]
            /\ UNCHANGED <<ret, resp>>

(* The /submit handler up to its call of fetchVideoMetaData *)
Submit(p, u) ==
    /\ pc[p] = "idle"
    /\ IF u = <<>> \/ ~ValidateURL(u)
       THEN /\ resp' = [resp EXCEPT ![p] = "400 Invalid or unsupported video URL"]
            /\ pc' = [pc EXCEPT ![p] = "responded"]
            /\ caller' = [caller EXCEPT ![p] = "submit"]
            /\ url' = [url EXCEPT ![p] = u]
            /\ UNCHANGED ret
       ELSE Enter(p, u, "submit")
    /\ UNCHANGED <<cache, got, out, val, gets, toolRuns, setLog, lastSet>>

(* fetchVideoMetaData called with any argument *)
Call(p, u) ==
    /\ pc[p] = "idle"
    /\ Enter(p, u, "direct")
    /\ UNCHANGED <<cache, got, out, val, gets, toolRuns, setLog, lastSet>>

(* The lookup that stores the entry again on a hit, with a new expiry *)
CacheGet_RefreshTTL(p) ==
    /\ pc[p] = "get"
    /\ \E r \in GetResults(cache, cacheKey(url[p])) :
        /\ got' = [got EXCEPT ![p] = r]
        /\ gets' = [gets EXCEPT ![p] = @ + 1]
        /\ IF r.err = Nil /\ UnmarshalVideoResponse(r.data).err = Nil
           THEN /\ Return(p, caller[p], Ptr(UnmarshalVideoResponse(r.data).v[1]), Nil)
                /\ cache' = Set(cache, cacheKey(url[p]), r.data, TTL)
                /\ setLog' = [setLog EXCEPT ![p] =
                       Append(@, [key |-> cacheKey(url[p]), data |-> r.data, ttl |-> TTL,
                                  applied |-> TRUE])]
           ELSE /\ pc' = [pc EXCEPT ![p] = "exec"]
                /\ UNCHANGED <<ret, resp, cache, setLog>>
    /\ UNCHANGED <<caller, url, out, val, toolRuns, lastSet>>

(* The cache lookup, and the return on a hit that deserializes *)
CacheGet(p) ==
    /\ pc[p] = "get"
    /\ \E r \in GetResults(cache, cacheKey(url[p])) :
        /\ got' = [got EXCEPT ![p] = r]
        /\ gets' = [gets EXCEPT ![p] = @ + 1]
        /\ IF r.err = Nil /\ UnmarshalVideoResponse(r.data).err = Nil
           THEN Return(p, caller[p], Ptr(UnmarshalVideoResponse(r.data).v[1]), Nil)
           ELSE /\ pc' = [pc EXCEPT ![p] = "exec"]
                /\ UNCHANGED <<ret, resp>>
    /\ UNCHANGED <<cache, caller, url, out, val, toolRuns, setLog, lastSet>>

(* The invocation that is tried a second time when the first one fails *)
ExecTool_Retry(p) ==
    /\ pc[p] = "exec"
    /\ \E o \in ToolOutcomes :
        /\ out' = [out EXCEPT ![p] = o]
        /\ toolRuns' = [toolRuns EXCEPT ![p] = @ + 1]
        /\ IF o.err # Nil /\ toolRuns[p] = 0
           THEN UNCHANGED <<pc, ret, resp, val>>
           ELSE IF o.err # Nil
           THEN /\ Return(p, caller[p], NilPtr, o.err)
                /\ UNCHANGED val
           ELSE IF UnmarshalYTDLPOutput(o.stdout).err # Nil
           THEN /\ Return(p, caller[p], NilPtr, UnmarshalYTDLPOutput(o.stdout).err)
                /\ UNCHANGED val
           ELSE /\ val' = [val EXCEPT ![p] = Ptr(Normalize(UnmarshalYTDLPOutput(o.stdout).v[1]))]
                /\ pc' = [pc EXCEPT ![p] = "set"]
                /\ UNCHANGED <<ret, resp>>
    /\ UNCHANGED <<cache, caller, url, got, gets, setLog, lastSet>>

(* exec.Command("yt-dlp", "-j", videoURL).Output(), the parse of its       *)
(* output and the construction of videoResp                                *)
ExecTool(p) ==
    /\ pc[p] = "exec"
    /\ \E o \in ToolOutcomes :
        /\ out' = [out EXCEPT ![p] = o]
        /\ toolRuns' = [toolRuns EXCEPT ![p] = @ + 1]
        /\ IF o.err # Nil
           THEN /\ Return(p, caller[p], NilPtr, o.err)
                /\ UNCHANGED val
           ELSE IF UnmarshalYTDLPOutput(o.stdout).err # Nil
           THEN /\ Return(p, caller[p], NilPtr, UnmarshalYTDLPOutput(o.stdout).err)
                /\ UNCHANGED val
           ELSE /\ val' = [val EXCEPT ![p] = Ptr(Normalize(UnmarshalYTDLPOutput(o.stdout).v[1]))]
                /\ pc' = [pc EXCEPT ![p] = "set"]
                /\ UNCHANGED <<ret, resp>>
    /\ UNCHANGED <<cache, caller, url, got, gets, setLog, lastSet>>

(* The set whose error is returned to the caller *)
CacheSet_FailOnError(p) ==
    /\ pc[p] = "set"
    /\ \E applied \in BOOLEAN :
        LET cacheData == Marshal(val[p][1])
            key == cacheKey(url[p])
        IN /\ setLog' = [setLog EXCEPT ![p] =
                  Append(@, [key |-> key, data |-> cacheData, ttl |-> TTL, applied |-> applied])]
           /\ IF applied
              THEN /\ cache' = Set(cache, key, cacheData, TTL)
                   /\ lastSet' = [k \in DOMAIN lastSet \cup {key} |->
                          IF k = key THEN [data |-> cacheData, age |-> 0] ELSE lastSet[k]]
                   /\ Return(p, caller[p], val[p], Nil)
              ELSE /\ UNCHANGED <<cache, lastSet>>
                   /\ Return(p, caller[p], NilPtr, "connection refused")
    /\ UNCHANGED <<caller, url, got, out, val, gets, toolRuns>>

(* json.Marshal, rdb.Set with its result dropped, and the return *)
CacheSet(p) ==
    /\ pc[p] = "set"
    /\ \E applied \in BOOLEAN :
        LET cacheData == Marshal(val[p][1])
            key == cacheKey(url[p])
        IN /\ setLog' = [setLog EXCEPT ![p] =
                  Append(@, [key |-> key, data |-> cacheData, ttl |-> TTL, applied |-> applied])]
           /\ IF applied
              THEN /\ cache' = Set(cache, key, cacheData, TTL)
                   /\ lastSet' = [k \in DOMAIN lastSet \cup {key} |->
                          IF k = key THEN [data |-> cacheData, age |-> 0] ELSE lastSet[k]]
              ELSE UNCHANGED <<cache, lastSet>>
    /\ Return(p, caller[p], val[p], Nil)
    /\ UNCHANGED <<caller, url, got, out, val, gets, toolRuns>>

(* Time passes in the store *)
Tick ==
    /\ DOMAIN cache # {}
    /\ cache' = Expire(cache)
    /\ lastSet' = Age(lastSet)
    /\ UNCHANGED <<pc, caller, url, got, out, val, ret, resp, gets, toolRuns, setLog>>

-----------------------------------------------------------------------------
(* The format-list normalisation on its own: every raw list up to          *)
(* MaxFormats entries, given to the loop of fetchVideoMetaData.            *)

RawEntries ==
    { [FormatID |-> id, Ext |-> "mp4", Format |-> "360p", Width |-> 640, Height |-> 360,
       Acodec |-> a, Vcodec |-> v] :
        id \in {"", "18", "22"}, v \in {"none", "", "h264"}, a \in {"none", "aac"} }

RECURSIVE SeqsUpTo(_, _)
SeqsUpTo(S, n) ==
    IF n = 0 THEN { <<>> }
    ELSE LET shorter == SeqsUpTo(S, n - 1) IN
         shorter \cup { Append(q, x) : q \in shorter, x \in S }

NormInit ==
    /\ nPc = "start"
    /\ rawList \in SeqsUpTo(RawEntries, MaxFormats)
    /\ medias = <<>>

NormOff ==
    /\ nPc = "off"
    /\ rawList = <<>>
    /\ medias = <<>>

NormalizeStep ==
    /\ nPc = "start"
    /\ medias' = NormalizeFormats(rawList)
    /\ nPc' = "done"
    /\ UNCHANGED rawList

-----------------------------------------------------------------------------
(* The format-id check.  A format id is a sequence of byte values; the     *)
(* sample holds 'A' 'z' '0' '+' '_' '-' and ' ' ';' '&' '/' '\n'.          *)

IdBytes == {65, 122, 48, 43, 95, 45, 32, 59, 38, 47, 10}

(* The class with '-' between '+' and '_', which reads as the range '+'..'_' *)
InClass_PlusToUnderscore(c) ==
    \/ c >= 97 /\ c <= 122
    \/ c >= 65 /\ c <= 90
    \/ c >= 48 /\ c <= 57
    \/ c >= 43 /\ c <= 95

(* The class [a-zA-Z0-9+_-] *)
InClass(c) ==
    \/ c >= 97 /\ c <= 122
    \/ c >= 65 /\ c <= 90
    \/ c >= 48 /\ c <= 57
    \/ c = 43
    \/ c = 95
    \/ c = 45

(* ^[...]+$ : one character of the class, then more of them up to the end  *)
(* of the text                                                             *)
RECURSIVE MatchRest(_, _)
MatchRest(s, i) ==
    IF i > Len(s) THEN TRUE
    ELSE IF InClass(s[i]) THEN MatchRest(s, i + 1)
    ELSE FALSE

MatchString(s) ==
    /\ Len(s) >= 1
    /\ InClass(s[1])
    /\ MatchRest(s, 2)

isValidFormatID(id) == id # <<>> /\ MatchString(id)

-----------------------------------------------------------------------------
(* The /download handler.  The tool's standard output reaches the          *)
(* response through a pipe that cmd.Run drains before it returns.          *)

Chunks == {"a", "b"}

DownloadURLs == { <<>>, <<"h", ":", "/", "/", "e", "/", "w">>, <<"/", "w">> }

DlInit ==
    /\ dPc = "start"
    /\ dURL \in DownloadURLs
    /\ dFormat \in SeqsUpTo(IdBytes, MaxIdLen)
    /\ dFormatOK = FALSE
    /\ dStatus = 0
    /\ dBody = <<>>
    /\ dToolRuns = 0
    /\ dToolOut = <<>>
    /\ dPipe = <<>>
    /\ dExit = 0

DlOff ==
    /\ dPc = "off"
    /\ dURL = <<>>
    /\ dFormat = <<>>
    /\ dFormatOK = FALSE
    /\ dStatus = 0
    /\ dBody = <<>>
    /\ dToolRuns = 0
    /\ dToolOut = <<>>
    /\ dPipe = <<>>
    /\ dExit = 0

(* http.Error(w, msg, code): the status line if none was sent yet, and the *)
(* message as body                                                         *)
httpError(msg, code) ==
    /\ dStatus' = IF dStatus = 0 THEN code ELSE dStatus
    /\ dBody' = Append(dBody, msg)

DlCheckURL ==
    /\ dPc = "start"
    /\ IF dURL = <<>>
       THEN /\ httpError("Missing video page URL", 400)
            /\ dPc' = "done"
       ELSE /\ dPc' = "format"
            /\ UNCHANGED <<dStatus, dBody>>
    /\ UNCHANGED <<dURL, dFormat, dFormatOK, dToolRuns, dToolOut, dPipe, dExit>>

(* The handler without the check of the format id *)
DlCheckFormat_Skipped ==
    /\ dPc = "format"
    /\ dFormatOK' = isValidFormatID(dFormat)
    /\ dPc' = "exec"
    /\ UNCHANGED <<dStatus, dBody>>
    /\ UNCHANGED <<dURL, dFormat, dToolRuns, dToolOut, dPipe, dExit>>

DlCheckFormat ==
    /\ dPc = "format"
    /\ dFormatOK' = isValidFormatID(dFormat)
    /\ IF ~isValidFormatID(dFormat)
       THEN /\ httpError("Invalid format", 400)
            /\ dPc' = "done"
       ELSE /\ dPc' = "exec"
            /\ UNCHANGED <<dStatus, dBody>>
    /\ UNCHANGED <<dURL, dFormat, dToolRuns, dToolOut, dPipe, dExit>>

(* cmd.Run(): the process starts, or Run returns the error at once *)
DlStart ==
    /\ dPc = "exec"
    /\ dToolRuns' = dToolRuns + 1
    /\ \E started \in BOOLEAN :
        IF started
        THEN /\ dPc' = "running"
             /\ UNCHANGED <<dStatus, dBody>>
        ELSE /\ httpError("Failed to download video", 500)
             /\ dPc' = "done"
    /\ UNCHANGED <<dURL, dFormat, dFormatOK, dToolOut, dPipe, dExit>>

(* The tool writes a chunk to its standard output *)
DlToolWrite(b) ==
    /\ dPc = "running"
    /\ Len(dToolOut) < MaxChunks
    /\ dToolOut' = Append(dToolOut, b)
    /\ dPipe' = Append(dPipe, b)
    /\ UNCHANGED <<dPc, dURL, dFormat, dFormatOK, dStatus, dBody, dToolRuns, dExit>>

(* The copy from the pipe into w; the first Write sends status 200 *)
DlCopy ==
    /\ dPc \in {"running", "exited"}
    /\ dPipe # <<>>
    /\ dBody' = Append(dBody, Head(dPipe))
    /\ dPipe' = Tail(dPipe)
    /\ dStatus' = IF dStatus = 0 THEN 200 ELSE dStatus
    /\ UNCHANGED <<dPc, dURL, dFormat, dFormatOK, dToolRuns, dToolOut, dExit>>

(* The tool exits *)
DlExit(code) ==
    /\ dPc = "running"
    /\ dExit' = code
    /\ dPc' = "exited"
    /\ UNCHANGED <<dURL, dFormat, dFormatOK, dStatus, dBody, dToolRuns, dToolOut, dPipe>>

(* cmd.Run() returns once the pipe is drained; the handler answers an      *)
(* exit status other than 0 with http.Error, and a handler that returns    *)
(* without having written leaves the server to send status 200             *)
DlFinish ==
    /\ dPc = "exited"
    /\ dPipe = <<>>
    /\ IF dExit # 0
       THEN httpError("Failed to download video", 500)
       ELSE /\ dStatus' = IF dStatus = 0 THEN 200 ELSE dStatus
            /\ UNCHANGED dBody
    /\ dPc' = "done"
    /\ UNCHANGED <<dURL, dFormat, dFormatOK, dToolRuns, dToolOut, dPipe, dExit>>

-----------------------------------------------------------------------------
(* Specifications *)

FetchOff ==
    /\ cache = <<>>
    /\ pc = <<>>
    /\ caller = <<>>
    /\ url = <<>>
    /\ got = <<>>
    /\ out = <<>>
    /\ val = <<>>
    /\ ret = <<>>
    /\ resp = <<>>
    /\ gets = <<>>
    /\ toolRuns = <<>>
    /\ setLog = <<>>
    /\ lastSet = <<>>

(* The server: concurrent /submit requests, the store and the clock *)
Init == FetchInit /\ NormOff /\ DlOff

Next ==
    \/ \E p \in Calls, u \in SubmitURLs : Submit(p, u) /\ UNCHANGED <<nvars, dvars>>
    \/ \E p \in Calls : CacheGet(p) /\ UNCHANGED <<nvars, dvars>>
    \/ \E p \in Calls : ExecTool(p) /\ UNCHANGED <<nvars, dvars>>
    \/ \E p \in Calls : CacheSet(p) /\ UNCHANGED <<nvars, dvars>>
    \/ Tick /\ UNCHANGED <<nvars, dvars>>

Spec == Init /\ [][Next]_vars

(* One call of fetchVideoMetaData with any argument *)
NextCall ==
    \/ \E u \in URLs : Call(1, u) /\ UNCHANGED <<nvars, dvars>>
    \/ CacheGet(1) /\ UNCHANGED <<nvars, dvars>>
    \/ ExecTool(1) /\ UNCHANGED <<nvars, dvars>>
    \/ CacheSet(1) /\ UNCHANGED <<nvars, dvars>>
    \/ Tick /\ UNCHANGED <<nvars, dvars>>

SpecCall == Init /\ [][NextCall]_vars

(* The normalisation of one raw format list *)
InitNormalize == FetchOff /\ NormInit /\ DlOff

NextNormalize == NormalizeStep /\ UNCHANGED <<fvars, dvars>>

SpecNormalize == InitNormalize /\ [][NextNormalize]_vars

(* One /download request *)
InitDownload == FetchOff /\ NormOff /\ DlInit

NextDownload ==
    \/ DlCheckURL /\ UNCHANGED <<fvars, nvars>>
    \/ DlCheckFormat /\ UNCHANGED <<fvars, nvars>>
    \/ DlStart /\ UNCHANGED <<fvars, nvars>>
    \/ \E b \in Chunks : DlToolWrite(b) /\ UNCHANGED <<fvars, nvars>>
    \/ DlCopy /\ UNCHANGED <<fvars, nvars>>
    \/ \E code \in {0, 1} : DlExit(code) /\ UNCHANGED <<fvars, nvars>>
    \/ DlFinish /\ UNCHANGED <<fvars, nvars>>

SpecDownload == InitDownload /\ [][NextDownload]_vars

-----------------------------------------------------------------------------
(* Properties *)

Rejected == "400 Invalid or unsupported video URL"

(* The call has left fetchVideoMetaData *)
Finished(p) == pc[p] \in {"returned", "responded"} /\ resp[p] # Rejected

(* The cache get of the call returned a payload that deserializes *)
Hit(p) ==
    /\ gets[p] >= 1
    /\ got[p].err = Nil
    /\ UnmarshalVideoResponse(got[p].data).err = Nil

(* The tool ran, exited 0 and wrote a document that parses *)
FreshOK(p) ==
    /\ toolRuns[p] >= 1
    /\ out[p].err = Nil
    /\ out[p].stdout.kind = "json"

(* The tool ran and failed: no start, exit status other than 0, no output, *)
(* or output that does not parse                                           *)
ToolFailed(p) ==
    /\ toolRuns[p] >= 1
    /\ \/ out[p].err # Nil
       \/ out[p].stdout.kind = "empty"
       \/ out[p].stdout.kind = "garbage"

(* C1: a call whose cache get returned a payload that deserializes returns *)
(* that deserialized value with a nil error, and has invoked the tool      *)
(* never and issued no cache set.                                          *)
C1_CacheHitReturnsCached ==
    \A p \in Calls :
        (Finished(p) /\ Hit(p)) =>
            /\ ret[p].err = Nil
            /\ ret[p].val = << UnmarshalVideoResponse(got[p].data).v[1] >>
            /\ toolRuns[p] = 0
            /\ setLog[p] = <<>>

(* A call was served from the entry another call had stored *)
C1_Witness ==
    \E p, q \in Calls :
        /\ p # q
        /\ Finished(p) /\ Hit(p)
        /\ setLog[q] # <<>>
        /\ setLog[q][1].applied
        /\ got[p].data = setLog[q][1].data
        /\ resp[p] = "200"

(* The URL parses as an absolute URL with a scheme and a host *)
ParsesAbsolute(u) ==
    /\ ParseRequestURI(u).err = Nil
    /\ ParseRequestURI(u).Scheme # <<>>
    /\ ParseRequestURI(u).Host # <<>>

(* C4: for a pageURL that does not parse as an absolute URL with scheme    *)
(* and host, fetchVideoMetaData returns an error and no value, before any  *)
(* cache lookup and any tool invocation.                                   *)
C4_InvalidURLFails ==
    (pc[1] = "returned" /\ ~ParsesAbsolute(url[1])) =>
        /\ ret[1].err # Nil
        /\ ret[1].val = NilPtr
        /\ gets[1] = 0
        /\ toolRuns[1] = 0

(* A codec is present when the tool does not report it as "none" *)
Present(codec) == codec # "none"

Kept(f) == f.FormatID # "" /\ (Present(f.Vcodec) \/ Present(f.Acodec))

(* C5: the formats built from a raw list are exactly its entries with a    *)
(* non-empty format id and a video or an audio codec, in the raw order.    *)
C5_FormatsFiltered ==
    nPc = "done" =>
        LET sel == SelectSeq(rawList, Kept) IN
        /\ Len(medias) = Len(sel)
        /\ \A i \in 1..Len(sel) :
            medias[i] = [FormatID |-> sel[i].FormatID, Quality |-> sel[i].Format,
                         Width |-> sel[i].Width, Height |-> sel[i].Height,
                         Ext |-> sel[i].Ext]

(* An entry with both codecs "none" was dropped and the one after it kept *)
C5_Witness ==
    /\ nPc = "done"
    /\ Len(rawList) = 2
    /\ rawList[1].FormatID = "18"
    /\ rawList[1].Vcodec = "none" /\ rawList[1].Acodec = "none"
    /\ Len(medias) = 1
    /\ medias[1].FormatID = "22"

(* C6: a fresh fetch whose tool run succeeded and whose output parsed has  *)
(* issued exactly one cache set, of the serialized normalized metadata,    *)
(* under "video_meta:"+pageURL with a 5-minute expiry, and has returned    *)
(* the metadata with a nil error, whether the store applied the set or not. *)
C6_FreshFetchSetsCache ==
    \A p \in Calls :
        (Finished(p) /\ FreshOK(p)) =>
            /\ ret[p].err = Nil
            /\ ret[p].val = << Normalize(UnmarshalYTDLPOutput(out[p].stdout).v[1]) >>
            /\ Len(setLog[p]) = 1
            /\ setLog[p][1].key = <<"video_meta:">> \o url[p]
            /\ setLog[p][1].data = Marshal(ret[p].val[1])
            /\ setLog[p][1].ttl = 5

(* A fresh fetch after a corrupt payload returned its metadata although    *)
(* the store did not apply the set                                         *)
C6_Witness ==
    \E p \in Calls :
        /\ Finished(p) /\ FreshOK(p)
        /\ got[p].err = Nil /\ got[p].data.kind = "garbage"
        /\ ~setLog[p][1].applied
        /\ ret[p].err = Nil
        /\ ret[p].val # NilPtr

(* C7: a fetch whose tool run failed, wrote nothing or wrote what does not *)
(* parse returns an error and no value after exactly one tool invocation,  *)
(* and has issued no cache set.                                            *)
C7_ToolFailureNoRetryNoSet ==
    \A p \in Calls :
        (Finished(p) /\ ToolFailed(p)) =>
            /\ ret[p].err # Nil
            /\ ret[p].val = NilPtr
            /\ toolRuns[p] = 1
            /\ setLog[p] = <<>>

(* The tool exited 0 without output, and the store kept the entry it had *)
C7_Witness ==
    \E p \in Calls :
        /\ Finished(p)
        /\ out[p].err = Nil /\ out[p].stdout.kind = "empty" /\ toolRuns[p] = 1
        /\ resp[p] = "500 Error fetching video meta data"
        /\ Lookup(cache, ValidKey) # Miss

AllDone == \A p \in Calls : pc[p] \in {"returned", "responded"}

(* C9: with concurrent calls for one URL, a call that did not get a        *)
(* payload that deserializes runs the tool itself; a call whose tool run   *)
(* succeeded returns the metadata normalized from its own output; a call   *)
(* in progress can always take its next step; and when all calls have      *)
(* finished the entry is the one of the last set the store applied, for    *)
(* the 5 minutes it lives.                                                 *)
C9_ConcurrentFetches ==
    /\ \A p \in Calls :
        /\ (Finished(p) /\ gets[p] >= 1 /\ ~Hit(p)) => toolRuns[p] = 1
        /\ (Finished(p) /\ FreshOK(p)) =>
               ret[p] = [val |-> << Normalize(UnmarshalYTDLPOutput(out[p].stdout).v[1]) >>,
                         err |-> Nil]
        /\ pc[p] \in {"get", "exec", "set"} =>
               ENABLED (CacheGet(p) \/ ExecTool(p) \/ CacheSet(p))
    /\ (AllDone /\ ValidKey \in DOMAIN lastSet) =>
           LET l == lastSet[ValidKey] IN
           IF l.age < TTL
           THEN Lookup(cache, ValidKey) = << [data |-> l.data, ttl |-> TTL - l.age] >>
           ELSE Lookup(cache, ValidKey) = Miss

(* Two calls for the same URL both ran the tool, got different documents   *)
(* and both stored theirs; the entry is the second one's                   *)
C9_Witness ==
    \E p, q \in Calls :
        /\ p # q
        /\ AllDone
        /\ url[p] = url[q]
        /\ toolRuns[p] = 1 /\ toolRuns[q] = 1
        /\ FreshOK(p) /\ FreshOK(q)
        /\ setLog[p][1].applied /\ setLog[q][1].applied
        /\ setLog[p][1].data # setLog[q][1].data
        /\ Lookup(cache, ValidKey) # Miss
        /\ cache[ValidKey].data = setLog[q][1].data
        /\ ret[p].val[1] # ret[q].val[1]

(* C10: whenever fetchVideoMetaData has returned a nil error to the        *)
(* /submit handler, the metadata is non-nil and has at least one format,   *)
(* so the handler answers without a panic.                                 *)
C10_SubmitNeverCrashes ==
    \A p \in Calls :
        (pc[p] = "responded" /\ resp[p] # Rejected /\ ret[p].err = Nil) =>
            /\ ret[p].val # NilPtr
            /\ Len(ret[p].val[1].Medias) >= 1
            /\ resp[p] = "200"

(* The bytes a format id may hold: A-Z a-z 0-9 + _ - *)
AllowedBytes == {43, 45, 95} \cup (48..57) \cup (65..90) \cup (97..122)

AllowedId(id) ==
    /\ Len(id) >= 1
    /\ \A i \in 1..Len(id) : id[i] \in AllowedBytes

(* C2: the tool is invoked only for a request with a non-empty pageURL and *)
(* a format id of allowed characters; any other request ends with status   *)
(* 400, no tool invocation and no byte of tool output in the response.     *)
C2_ToolOnlyAfterChecks ==
    /\ dToolRuns > 0 => (dURL # <<>> /\ AllowedId(dFormat))
    /\ (dPc = "done" /\ (dURL = <<>> \/ ~AllowedId(dFormat))) =>
           /\ dStatus = 400
           /\ dToolRuns = 0
           /\ dToolOut = <<>>
           /\ \A i \in 1..Len(dBody) : dBody[i] \notin Chunks

(* The request with format "0;" was refused *)
C2_Witness ==
    /\ dPc = "done"
    /\ dURL # <<>>
    /\ dFormat = <<48, 59>>
    /\ dStatus = 400
    /\ dBody = <<"Invalid format">>

(* C3: isValidFormatID(id) is true exactly when id is non-empty and each   *)
(* of its characters is one of A-Z a-z 0-9 + _ -                           *)
C3_FormatIDPattern ==
    (dPc \in {"exec", "running", "exited", "done"} /\ dURL # <<>>) =>
        (dFormatOK <=> AllowedId(dFormat))

(* The format id "A-" was accepted *)
C3_Witness ==
    /\ dPc = "exec"
    /\ dFormat = <<65, 45>>
    /\ dFormatOK

IsPrefix(a, b) == Len(a) <= Len(b) /\ SubSeq(b, 1, Len(a)) = a

(* C8: at the end of a request that reached the tool, the response body is *)
(* a prefix of what the tool wrote, and all of it when the tool exited 0;  *)
(* the handler writes nothing else into it, also after a failure that      *)
(* occurs once bytes have started flowing.  Stated for the requests in     *)
(* which the tool has written output.                                      *)
C8_SinkIsPrefixOfToolOutput ==
    (dPc = "done" /\ dToolRuns > 0 /\ dToolOut # <<>>) =>
        /\ IsPrefix(dBody, dToolOut)
        /\ (dExit = 0 => dBody = dToolOut)

=============================================================================
